---- MODULE Spec2Model ----
(***************************************************************************)
(* Stock data tracker: the cache store (database.py), the API fetch path   *)
(* (main.py, AlpacaDataClient.get_daily_stock_data) and the incremental     *)
(* scheduler (scheduler.py, StockDataScheduler).                            *)
(*                                                                         *)
(* Dates are day numbers; day d falls on weekday d % 7 (0 = Monday, ...,    *)
(* 5 = Saturday, 6 = Sunday), as datetime.weekday() numbers them.           *)
(* Symbols are sequences of one-character strings, so that upper() and      *)
(* strip() are computed and not assumed.                                    *)
(***************************************************************************)
EXTENDS Integers, Sequences, FiniteSets, TLC

VARIABLES
    today,              \* the calendar day datetime.now() / CURRENT_DATE report
    stocks,             \* table stocks: rows [id, symbol, name]
    favorites,          \* table favorites: rows [id, stock_id, added_at]
    stock_prices,       \* table stock_prices: rows [stock_id, date, open, high, low, close, volume]
    scheduler_logs,     \* table scheduler_logs, in insertion order
    nextId,             \* next row id the database hands out
    lastWrite,          \* history: (stock_id, date) -> the bar of the latest successful write
    last,               \* history: the latest cache/API call, its arguments and its outcome
    alpaca_client,      \* StockDataScheduler.alpaca_client
    running,            \* StockDataScheduler.running
    pc,                 \* where run_scheduler stands
    gate,               \* the branch by which should_run_update answered in this iteration
    favorite_symbols,   \* update_favorite_stocks: the symbols obtained at the start of the run
    results,            \* update_favorite_stocks: per-symbol results so far
    processed,          \* update_favorite_stocks: processed
    failed,             \* update_favorite_stocks: failed
    total_new_records,  \* update_favorite_stocks: total_new_records
    lastWait,           \* seconds of the latest asyncio.sleep of run_scheduler
    argv1,              \* main: sys.argv[1], "none" when the service is started without it
    stop_point,         \* history: where run_scheduler stood when stop() was called
    callers             \* add_favorite calls in flight: where each stands between its awaits

vars == <<today, stocks, favorites, stock_prices, scheduler_logs, nextId, lastWrite, last,
          alpaca_client, running, pc, gate, favorite_symbols, results,
          processed, failed, total_new_records, lastWait, argv1, stop_point, callers>>

storeVars == <<stocks, favorites, stock_prices, nextId, lastWrite, last, callers>>

schedVars == <<alpaca_client, running, pc, gate, favorite_symbols, results, processed,
               failed, total_new_records, lastWait, scheduler_logs, argv1, stop_point>>

----------------------------------------------------------------------------
(* Bounds of the model *)

\* days the clock may advance past FirstDay
MaxDays == 2
\* scheduler_logs rows after which run_scheduler is no longer followed
MaxLogs == 2
\* row ids the database hands out
MaxId == 4

\* a Thursday
FirstDay == 5 * 7 + 3

(* Program constants *)

\* scheduler.py:184  now.weekday() > 4
LastWeekday == 4
\* scheduler.py:65   timedelta(days=30)
BootstrapDays == 30
\* scheduler.py:70   timedelta(days=7)
FallbackDays == 7
\* scheduler.py:257  asyncio.sleep(14400)
PollInterval == 14400
\* scheduler.py:264  asyncio.sleep(300)
ErrorInterval == 300
\* scheduler.py:156  asyncio.sleep(1)
PacingDelay == 1

----------------------------------------------------------------------------
(* Strings *)

\* str.upper() on one character
UpperChar(c) ==
    CASE c = "a" -> "A"
      [] c = "b" -> "B"
      [] c = "c" -> "C"
      [] OTHER -> c

\* str.upper()
Upper(s) == [i \in 1..Len(s) |-> UpperChar(s[i])]

RECURSIVE LStrip(_)
LStrip(s) == IF s # <<>> /\ Head(s) = " " THEN LStrip(Tail(s)) ELSE s

RECURSIVE RStrip(_)
RStrip(s) == IF s # <<>> /\ s[Len(s)] = " " THEN RStrip(SubSeq(s, 1, Len(s) - 1)) ELSE s

\* str.strip()
Strip(s) == RStrip(LStrip(s))

\* `not symbol or not symbol.strip()`
Blank(s) == s = <<>> \/ Strip(s) = <<>>

\* as if `.strip()` were missing
Normalize_UpperOnly(s) == Upper(s)

\* `symbol.upper().strip()`
Normalize(s) == Strip(Upper(s))

\* Python's None for an optional name
NoName == "None"

----------------------------------------------------------------------------
(* Rows *)

NoStock == [id |-> 0, symbol |-> <<>>, name |-> NoName]

NoFavorite == [id |-> 0, stock_id |-> 0, symbol |-> <<>>, name |-> NoName, added_at |-> 0]

NoBar == [open |-> 0, high |-> 0, low |-> 0, close |-> 0, volume |-> 0]

\* the stocks row of a symbol (stocks.symbol is looked up as stored)
StockRows(tbl, sym) == {s \in tbl : s.symbol = sym}

\* SELECT f.*, s.symbol, s.name FROM favorites f JOIN stocks s ON f.stock_id = s.id WHERE s.symbol = sym
FavoriteJoin(favs, tbl, sym) ==
    {[id |-> f.id, stock_id |-> f.stock_id, symbol |-> s.symbol, name |-> s.name,
      added_at |-> f.added_at] : <<f, s>> \in {p \in favs \X tbl : p[1].stock_id = p[2].id /\ p[2].symbol = sym}}

----------------------------------------------------------------------------
(* Cache store: database.py *)

\* get_or_create_stock: the ValueError guard, then SELECT by the normalized
\* symbol, then INSERT ... RETURNING * when no row was found; io tells
\* whether a connection was asked for
GetOrCreateStock(symbol, name, tbl, id) ==
    IF Blank(symbol)
    THEN [raised |-> "ValueError", stock |-> NoStock, stocks |-> tbl, nextId |-> id,
          io |-> FALSE]
    ELSE LET sym == Normalize(symbol)
             found == StockRows(tbl, sym)
         IN  IF found # {}
             THEN [raised |-> "none", stock |-> CHOOSE r \in found : TRUE,
                   stocks |-> tbl, nextId |-> id, io |-> TRUE]
             ELSE LET row == [id |-> id, symbol |-> sym, name |-> name]
                  IN  [raised |-> "none", stock |-> row,
                       stocks |-> tbl \cup {row}, nextId |-> id + 1, io |-> TRUE]

\* the uniqueness constraint on favorites.stock_id that add_favorite's
\* `except asyncpg.UniqueViolationError` answers to
FavoriteConflict(favs, stock_id) == \E f \in favs : f.stock_id = stock_id

\* the symbol add_favorite looks the existing favorite up by: `symbol.upper()`
ConflictLookupKey(symbol) == Upper(symbol)

\* add_favorite
AddFavoriteResult(symbol, name, tbl, favs, id, day) ==
    LET g == GetOrCreateStock(symbol, name, tbl, id)
    IN  IF g.raised # "none"
        THEN [outcome |-> g.raised, fav |-> NoFavorite,
              stocks |-> tbl, favorites |-> favs, nextId |-> id]
        ELSE IF FavoriteConflict(favs, g.stock.id)
        THEN LET rows == FavoriteJoin(favs, g.stocks, ConflictLookupKey(symbol))
             IN  IF rows = {}
                 THEN [outcome |-> "Exception", fav |-> NoFavorite,
                       stocks |-> g.stocks, favorites |-> favs, nextId |-> g.nextId]
                 ELSE [outcome |-> "ok", fav |-> CHOOSE r \in rows : TRUE,
                       stocks |-> g.stocks, favorites |-> favs, nextId |-> g.nextId]
        ELSE LET row == [id |-> g.nextId, stock_id |-> g.stock.id, added_at |-> day]
             IN  [outcome |-> "ok",
                  fav |-> [id |-> row.id, stock_id |-> row.stock_id, symbol |-> g.stock.symbol,
                           name |-> g.stock.name, added_at |-> row.added_at],
                  stocks |-> g.stocks, favorites |-> favs \cup {row}, nextId |-> g.nextId + 1]

\* as if the DELETE were keyed by `symbol.upper()`, as add_favorite's lookup is
RemoveFavoriteResult_Unstripped(symbol, tbl, favs, db) ==
    IF Blank(symbol) \/ db = "query_error"
    THEN [removed |-> FALSE, favorites |-> favs]
    ELSE LET ids == {s.id : s \in StockRows(tbl, Upper(symbol))}
             hit == {f \in favs : f.stock_id \in ids}
         IN  [removed |-> hit # {}, favorites |-> favs \ hit]

\* remove_favorite: DELETE FROM favorites WHERE stock_id = (SELECT id FROM stocks WHERE symbol = $1),
\* `result != "DELETE 0"`; False when the statement raises
RemoveFavoriteResult(symbol, tbl, favs, db) ==
    IF Blank(symbol) \/ db = "query_error"
    THEN [removed |-> FALSE, favorites |-> favs]
    ELSE LET ids == {s.id : s \in StockRows(tbl, Normalize(symbol))}
             hit == {f \in favs : f.stock_id \in ids}
         IN  [removed |-> hit # {}, favorites |-> favs \ hit]

\* as if the EXISTS were keyed by `symbol.upper()`
IsFavorite_Unstripped(symbol, tbl, favs) ==
    IF Blank(symbol) THEN FALSE ELSE FavoriteJoin(favs, tbl, Upper(symbol)) # {}

\* is_favorite, its statement executing
IsFavorite(symbol, tbl, favs) ==
    IF Blank(symbol) THEN FALSE ELSE FavoriteJoin(favs, tbl, Normalize(symbol)) # {}

\* get_favorite_symbols: SELECT DISTINCT s.symbol FROM favorites f JOIN stocks s
FavoriteSymbolSet(tbl, favs) == {s.symbol : s \in {t \in tbl : \E f \in favs : f.stock_id = t.id}}

\* the row one bar of save_stock_prices writes
PriceRow(stock_id, bar) ==
    [stock_id |-> stock_id, date |-> bar.date, open |-> bar.open, high |-> bar.high,
     low |-> bar.low, close |-> bar.close, volume |-> bar.volume]

\* a plain INSERT, as if the ON CONFLICT clause were missing
UpsertBar_InsertOnly(prices, stock_id, bar) == prices \cup {PriceRow(stock_id, bar)}

\* INSERT INTO stock_prices ... ON CONFLICT (stock_id, date) DO UPDATE SET ... = EXCLUDED. ...
UpsertBar(prices, stock_id, bar) ==
    LET hit == {r \in prices : r.stock_id = stock_id /\ r.date = bar.date}
    IN  IF hit = {}
        THEN prices \cup {PriceRow(stock_id, bar)}
        ELSE (prices \ hit) \cup
             {[r EXCEPT !.open = bar.open, !.high = bar.high, !.low = bar.low,
                        !.close = bar.close, !.volume = bar.volume] : r \in hit}

\* as if one try enclosed the whole loop: the first bar that fails ends it
RECURSIVE SaveLoop_AbortOnFailure(_, _, _, _, _, _, _, _)
SaveLoop_AbortOnFailure(prices, written, stock_id, price_data, faults, i, saved_count, replaced) ==
    IF i > Len(price_data) \/ i \in faults
    THEN [prices |-> prices, lastWrite |-> written, saved_count |-> saved_count,
          replaced |-> replaced]
    ELSE LET bar == price_data[i]
             key == <<stock_id, bar.date>>
             wrote == [open |-> bar.open, high |-> bar.high, low |-> bar.low,
                       close |-> bar.close, volume |-> bar.volume]
             over == key \in DOMAIN written /\ written[key].close # bar.close
         IN  SaveLoop_AbortOnFailure(UpsertBar(prices, stock_id, bar), (key :> wrote) @@ written,
                                     stock_id, price_data, faults, i + 1, saved_count + 1,
                                     IF over THEN replaced + 1 ELSE replaced)

\* save_stock_prices, the loop over price_data from its i-th bar on; faults
\* are the bars whose statement raises (data["date"] is missing, or the
\* execute fails): the inner except logs them and the loop goes on
RECURSIVE SaveLoop(_, _, _, _, _, _, _, _)
SaveLoop(prices, written, stock_id, price_data, faults, i, saved_count, replaced) ==
    IF i > Len(price_data)
    THEN [prices |-> prices, lastWrite |-> written, saved_count |-> saved_count,
          replaced |-> replaced]
    ELSE IF i \in faults
    THEN SaveLoop(prices, written, stock_id, price_data, faults, i + 1, saved_count, replaced)
    ELSE LET bar == price_data[i]
             key == <<stock_id, bar.date>>
             wrote == [open |-> bar.open, high |-> bar.high, low |-> bar.low,
                       close |-> bar.close, volume |-> bar.volume]
             over == key \in DOMAIN written /\ written[key].close # bar.close
         IN  SaveLoop(UpsertBar(prices, stock_id, bar), (key :> wrote) @@ written,
                      stock_id, price_data, faults, i + 1, saved_count + 1,
                      IF over THEN replaced + 1 ELSE replaced)

\* save_stock_prices
SaveStockPrices(symbol, price_data, faults, tbl, prices, written, id) ==
    IF Blank(symbol) \/ price_data = <<>>
    THEN [saved_count |-> 0, stocks |-> tbl, stock_prices |-> prices,
          lastWrite |-> written, nextId |-> id, replaced |-> 0]
    ELSE LET g == GetOrCreateStock(symbol, NoName, tbl, id)
             w == SaveLoop(prices, written, g.stock.id, price_data, faults, 1, 0, 0)
         IN  [saved_count |-> w.saved_count, stocks |-> g.stocks, stock_prices |-> w.prices,
              lastWrite |-> w.lastWrite, nextId |-> g.nextId, replaced |-> w.replaced]

\* ORDER BY sp.date DESC
RECURSIVE SortDesc(_)
SortDesc(rows) ==
    IF rows = {} THEN <<>>
    ELSE LET top == CHOOSE r \in rows : \A q \in rows : q.date <= r.date
         IN  <<top>> \o SortDesc(rows \ {top})

\* as if the limit were passed as given
Limit_AsGiven(days) == days

\* max(1, days)
Limit(days) == IF days < 1 THEN 1 ELSE days

\* get_stock_prices
GetStockPrices(symbol, days, tbl, prices) ==
    IF Blank(symbol) THEN <<>>
    ELSE LET ids == {s.id : s \in StockRows(tbl, Normalize(symbol))}
             rows == SortDesc({r \in prices : r.stock_id \in ids})
         IN  SubSeq(rows, 1, IF Len(rows) < Limit(days) THEN Len(rows) ELSE Limit(days))

\* SELECT MAX(sp.date) ... WHERE s.symbol = $1, with `symbol.upper()`; 0 rows give NULL
HasBars(symbol, tbl, prices) ==
    \E r \in prices : \E s \in StockRows(tbl, Upper(symbol)) : r.stock_id = s.id

MaxDate(symbol, tbl, prices) ==
    LET ds == {r.date : r \in {q \in prices : \E s \in StockRows(tbl, Upper(symbol)) : q.stock_id = s.id}}
    IN  CHOOSE d \in ds : \A e \in ds : e <= d

----------------------------------------------------------------------------
(* API fetch path: main.py, AlpacaDataClient.get_daily_stock_data *)

\* price levels a provider bar may carry
Prices == {1, 2}

\* a bar of the provider: bar.timestamp.date(), bar.open, bar.high, bar.low, bar.close, bar.volume
Bar(d, p) == [date |-> d, open |-> p, high |-> p + 1, low |-> p - 1, close |-> p, volume |-> 10 * p]

\* what historical_client.get_stock_bars may answer for [start, end]: an
\* exception, a response without the symbol, or the symbol's bars by date
ProviderResponses(start, end) ==
    {[kind |-> "exception", bars |-> <<>>], [kind |-> "no_symbol", bars |-> <<>>]}
    \cup {[kind |-> "bars", bars |-> <<>>]}
    \cup {[kind |-> "bars", bars |-> <<Bar(d, p)>>] : d \in start..end, p \in Prices}
    \cup {[kind |-> "bars", bars |-> <<Bar(d, p), Bar(e, q)>>] :
             <<d, e, p, q>> \in {t \in (start..end) \X (start..end) \X (Prices) \X (Prices) : t[1] < t[2]}}

\* no provider call was made
NoResponse == [kind |-> "none", bars |-> <<>>]

\* DailyStockData of a cached row or of a provider bar
DailyData(r) == [date |-> r.date, open |-> r.open, high |-> r.high, low |-> r.low,
                 close |-> r.close, volume |-> r.volume]

\* daily_data.sort(key=lambda x: x.date, reverse=True)
NewestFirst(bars) == SortDesc({DailyData(bars[i]) : i \in 1..Len(bars)})

NoCall == [op |-> "none", symbol |-> <<>>, outcome |-> "none", fav |-> NoFavorite,
           flag |-> FALSE, data |-> <<>>, source |-> "none", saved |-> 0, replaced |-> 0,
           stock |-> NoStock, io |-> FALSE, days |-> 0, failed_dates |-> {},
           provider |-> NoResponse, start |-> 0, end |-> 0, events |-> <<>>,
           use_cache |-> FALSE, read |-> "none"]

\* what `cached_data = await db.get_stock_prices(symbol, days)` leaves to
\* get_daily_stock_data: the rows read, or nothing when the read fails
\* (get_stock_prices returns [] from its except branch, and an exception of
\* the connection is caught by the `except Exception` around the cache block)
CachedData(symbol, days, readok, tbl, prices) ==
    IF readok THEN GetStockPrices(symbol, days, tbl, prices) ELSE <<>>

\* as if the cache were consulted whatever use_cache says
CacheHit_IgnoreFlag(use_cache, cached_data) == cached_data # <<>>

\* `if use_cache:` ... `if cached_data:`
CacheHit(use_cache, cached_data) == use_cache /\ cached_data # <<>>

\* end_date = datetime.now() - timedelta(days=1); start_date = end_date - timedelta(days=days)
RequestRange(now, days) == [start |-> now - 1 - days, end |-> now - 1]

\* as if the `except HTTPException: raise` were missing, so that the 404s
\* were wrapped by the `except Exception` into 500s
ProviderOutcome_Wrapped(resp) ==
    IF resp.kind = "bars" /\ resp.bars # <<>> THEN "ok" ELSE "500"

\* the status of the provider part of get_daily_stock_data: an exception of
\* get_stock_bars becomes 500 "Failed to fetch data", a response without the
\* symbol 404 "No data found for symbol", one without bars 404 "No data
\* points found"
ProviderOutcome(resp) ==
    IF resp.kind = "exception" THEN "500"
    ELSE IF resp.kind = "no_symbol" \/ resp.bars = <<>> THEN "404"
    ELSE "ok"

\* as if get_stock_prices kept its connection after returning
ConnectionBlock_KeptOpen(symbol) == IF Blank(symbol) THEN <<>> ELSE <<"acquire">>

\* `async with self.get_connection() as conn:` of a cache function that
\* returns early on a blank symbol: the connection is acquired on entry and
\* released on exit, whether the block returns or raises
ConnectionBlock(symbol) == IF Blank(symbol) THEN <<>> ELSE <<"acquire", "release">>

\* save_stock_prices: the block of get_or_create_stock, then the block of
\* the per-bar loop
SaveStockPricesEvents(symbol, price_data) ==
    IF Blank(symbol) \/ price_data = <<>> THEN <<>>
    ELSE ConnectionBlock(symbol) \o <<"acquire", "release">>

\* the cache connections and the provider call of one get_daily_stock_data,
\* in the order of the code
GetDailyStockDataEvents(symbol, use_cache, hit, resp) ==
    (IF use_cache THEN ConnectionBlock(symbol) ELSE <<>>)
    \o (IF hit THEN <<>>
        ELSE <<"provider">>
             \o (IF ProviderOutcome(resp) = "ok"
                 THEN SaveStockPricesEvents(symbol, resp.bars) ELSE <<>>))

\* get_daily_stock_data: the cache first, else one provider call for
\* [yesterday - days, yesterday] answering resp, whose bars are saved before
\* the response, but for those whose write fails
GetDailyStockData(symbol, days, use_cache, readok, resp, faults) ==
    LET cached == CachedData(symbol, days, readok, stocks, stock_prices)
        hit == CacheHit(use_cache, cached)
        range == RequestRange(today, days)
        call == [NoCall EXCEPT !.op = "get_daily_stock_data", !.symbol = symbol,
                   !.days = days, !.use_cache = use_cache,
                   !.read = IF ~use_cache \/ Blank(symbol) THEN "none"
                            ELSE IF readok THEN "ok" ELSE "failed",
                   !.events = GetDailyStockDataEvents(symbol, use_cache, hit, resp)]
        asked == [call EXCEPT !.source = "provider", !.provider = resp,
                    !.start = range.start, !.end = range.end]
    IN  IF hit
        THEN /\ last' = [call EXCEPT !.outcome = "ok", !.source = "cache",
                           !.data = [i \in 1..Len(cached) |-> DailyData(cached[i])]]
             /\ UNCHANGED <<stocks, stock_prices, nextId, lastWrite>>
        ELSE IF ProviderOutcome(resp) # "ok"
        THEN /\ last' = [asked EXCEPT !.outcome = ProviderOutcome(resp)]
             /\ UNCHANGED <<stocks, stock_prices, nextId, lastWrite>>
        ELSE LET w == SaveStockPrices(symbol, resp.bars, faults, stocks, stock_prices,
                                      lastWrite, nextId)
             IN  /\ stocks' = w.stocks
                 /\ stock_prices' = w.stock_prices
                 /\ lastWrite' = w.lastWrite
                 /\ nextId' = w.nextId
                 /\ last' = [asked EXCEPT !.outcome = "ok",
                               !.data = NewestFirst(resp.bars), !.saved = w.saved_count,
                               !.replaced = w.replaced,
                               !.failed_dates = {resp.bars[i].date : i \in faults}]

----------------------------------------------------------------------------
(* Requests of the API user *)

\* symbols a caller may pass: lower and upper case, padded, blank and empty
RawSymbols == {<<"a">>, <<"A">>, <<" ", "a">>, <<"B">>, <<" ">>, <<>>}

Names == {NoName, "Acme"}

ApiAddFavorite(symbol, name) ==
    /\ nextId + 1 <= MaxId
    /\ LET r == AddFavoriteResult(symbol, name, stocks, favorites, nextId, today)
       IN  /\ stocks' = r.stocks
           /\ favorites' = r.favorites
           /\ nextId' = r.nextId
           /\ last' = [NoCall EXCEPT !.op = "add_favorite", !.symbol = symbol,
                         !.outcome = r.outcome, !.fav = r.fav]
    /\ UNCHANGED <<stock_prices, lastWrite, today>>
    /\ UNCHANGED <<schedVars, callers>>

\* as if removing a favorite deleted the instrument's price history with it
ApiRemoveFavorite_Cascade(symbol, db) ==
    /\ LET r == RemoveFavoriteResult(symbol, stocks, favorites, db)
           gone == {f.stock_id : f \in favorites \ r.favorites}
       IN  /\ favorites' = r.favorites
           /\ stock_prices' = {p \in stock_prices : p.stock_id \notin gone}
           /\ last' = [NoCall EXCEPT !.op = "remove_favorite", !.symbol = symbol,
                         !.outcome = "ok", !.flag = r.removed, !.source = db]
    /\ UNCHANGED <<stocks, nextId, lastWrite, today>>
    /\ UNCHANGED <<schedVars, callers>>

ApiRemoveFavorite(symbol, db) ==
    /\ LET r == RemoveFavoriteResult(symbol, stocks, favorites, db)
       IN  /\ favorites' = r.favorites
           /\ last' = [NoCall EXCEPT !.op = "remove_favorite", !.symbol = symbol,
                         !.outcome = "ok", !.flag = r.removed, !.source = db]
    /\ UNCHANGED <<stocks, stock_prices, nextId, lastWrite, today>>
    /\ UNCHANGED <<schedVars, callers>>

\* GET /api/favorites/{symbol}/check: is_favorite, False when its statement raises
ApiCheckFavorite(symbol, db) ==
    /\ last' = [NoCall EXCEPT !.op = "is_favorite", !.symbol = symbol, !.outcome = "ok",
                  !.flag = IF db = "query_error" THEN FALSE
                           ELSE IsFavorite(symbol, stocks, favorites),
                  !.source = db]
    /\ UNCHANGED <<stocks, favorites, stock_prices, nextId, lastWrite, today>>
    /\ UNCHANGED <<schedVars, callers>>

\* a direct call of db_manager.get_or_create_stock
CallGetOrCreateStock(symbol, name) ==
    /\ nextId <= MaxId
    /\ LET g == GetOrCreateStock(symbol, name, stocks, nextId)
       IN  /\ stocks' = g.stocks
           /\ nextId' = g.nextId
           /\ last' = [NoCall EXCEPT !.op = "get_or_create_stock", !.symbol = symbol,
                         !.outcome = IF g.raised = "none" THEN "ok" ELSE g.raised,
                         !.stock = g.stock, !.io = g.io]
    /\ UNCHANGED <<favorites, stock_prices, lastWrite, today>>
    /\ UNCHANGED <<schedVars, callers>>

\* a direct call of db_manager.get_stock_prices
CallGetStockPrices(symbol, days) ==
    /\ last' = [NoCall EXCEPT !.op = "get_stock_prices", !.symbol = symbol, !.outcome = "ok",
                  !.days = days, !.data = GetStockPrices(symbol, days, stocks, stock_prices)]
    /\ UNCHANGED <<stocks, favorites, stock_prices, nextId, lastWrite, today>>
    /\ UNCHANGED <<schedVars, callers>>

\* GET /api/stock/{symbol}: one call of get_daily_stock_data; readok tells
\* whether the cache read, if made, succeeds
ApiGetStockData(symbol, days, use_cache, readok) ==
    /\ nextId <= MaxId
    /\ \E resp \in IF CacheHit(use_cache, CachedData(symbol, days, readok, stocks, stock_prices))
                    THEN {NoResponse}
                    ELSE ProviderResponses(RequestRange(today, days).start,
                                           RequestRange(today, days).end) :
          \E faults \in SUBSET (1..Len(resp.bars)) :
              GetDailyStockData(symbol, days, use_cache, readok, resp, faults)
    /\ UNCHANGED <<favorites, today>>
    /\ UNCHANGED <<schedVars, callers>>

----------------------------------------------------------------------------
(* Concurrent requests: add_favorite calls of two API requests, each a
   coroutine that other requests may overtake at its awaits *)

Callers == {1, 2}

NoCaller == [pc |-> "idle", symbol |-> <<>>, name |-> NoName, stock |-> NoStock,
             outcome |-> "none", fav |-> NoFavorite]

NoCallers == [c \in Callers |-> NoCaller]

\* the uniqueness of stocks.symbol: an INSERT of a symbol that a row already
\* holds raises UniqueViolationError
StockConflict(tbl, sym) == StockRows(tbl, sym) # {}

\* add_favorite entered and get_or_create_stock called: the ValueError guard
\* and `symbol = symbol.upper().strip()`
AddFavoriteBegin(c, symbol, name) ==
    /\ callers[c].pc = "idle"
    /\ nextId + 1 <= MaxId
    /\ callers' = [callers EXCEPT ![c] =
                     IF Blank(symbol)
                     THEN [NoCaller EXCEPT !.pc = "done", !.symbol = symbol, !.name = name,
                                           !.outcome = "ValueError"]
                     ELSE [NoCaller EXCEPT !.pc = "select", !.symbol = symbol, !.name = name]]
    /\ UNCHANGED <<stocks, favorites, stock_prices, nextId, lastWrite, last, today>>
    /\ UNCHANGED schedVars

\* get_or_create_stock: `await conn.fetchrow("SELECT * FROM stocks WHERE symbol = $1", symbol)`
AddFavoriteSelectStock(c) ==
    /\ callers[c].pc = "select"
    /\ LET found == StockRows(stocks, Normalize(callers[c].symbol))
       IN  callers' = [callers EXCEPT ![c] =
                         IF found # {}
                         THEN [@ EXCEPT !.pc = "favorite", !.stock = CHOOSE r \in found : TRUE]
                         ELSE [@ EXCEPT !.pc = "insert"]]
    /\ UNCHANGED <<stocks, favorites, stock_prices, nextId, lastWrite, last, today>>
    /\ UNCHANGED schedVars

\* get_or_create_stock: `await conn.fetchrow("INSERT INTO stocks (symbol, name) ... RETURNING *")`;
\* its exception is logged and raised again, and add_favorite raises it on
AddFavoriteInsertStock(c) ==
    /\ callers[c].pc = "insert"
    /\ LET sym == Normalize(callers[c].symbol)
           row == [id |-> nextId, symbol |-> sym, name |-> callers[c].name]
       IN  IF StockConflict(stocks, sym)
           THEN /\ callers' = [callers EXCEPT ![c] =
                                 [@ EXCEPT !.pc = "done", !.outcome = "UniqueViolationError"]]
                /\ UNCHANGED <<stocks, nextId>>
           ELSE /\ callers' = [callers EXCEPT ![c] = [@ EXCEPT !.pc = "favorite", !.stock = row]]
                /\ stocks' = stocks \cup {row}
                /\ nextId' = nextId + 1
    /\ UNCHANGED <<favorites, stock_prices, lastWrite, last, today>>
    /\ UNCHANGED schedVars

\* add_favorite: `INSERT INTO favorites (stock_id) ... RETURNING *`, and on
\* UniqueViolationError the lookup of the existing favorite by `symbol.upper()`
AddFavoriteInsertFavorite(c) ==
    /\ callers[c].pc = "favorite"
    /\ LET stock == callers[c].stock
           row == [id |-> nextId, stock_id |-> stock.id, added_at |-> today]
           rows == FavoriteJoin(favorites, stocks, ConflictLookupKey(callers[c].symbol))
       IN  IF FavoriteConflict(favorites, stock.id)
           THEN /\ callers' = [callers EXCEPT ![c] =
                                 IF rows = {}
                                 THEN [@ EXCEPT !.pc = "done", !.outcome = "Exception"]
                                 ELSE [@ EXCEPT !.pc = "done", !.outcome = "ok",
                                                !.fav = CHOOSE r \in rows : TRUE]]
                /\ UNCHANGED <<favorites, nextId>>
           ELSE /\ callers' = [callers EXCEPT ![c] =
                                 [@ EXCEPT !.pc = "done", !.outcome = "ok",
                                    !.fav = [id |-> row.id, stock_id |-> row.stock_id,
                                             symbol |-> stock.symbol, name |-> stock.name,
                                             added_at |-> row.added_at]]]
                /\ favorites' = favorites \cup {row}
                /\ nextId' = nextId + 1
    /\ UNCHANGED <<stocks, stock_prices, lastWrite, last, today>>
    /\ UNCHANGED schedVars

\* the request is answered: the favorite, or 500 "Failed to add favorite"
AddFavoriteReturn(c) ==
    /\ callers[c].pc = "done"
    /\ callers' = [callers EXCEPT ![c] = NoCaller]
    /\ last' = [NoCall EXCEPT !.op = "add_favorite", !.symbol = callers[c].symbol,
                  !.outcome = callers[c].outcome, !.fav = callers[c].fav]
    /\ UNCHANGED <<stocks, favorites, stock_prices, nextId, lastWrite, today>>
    /\ UNCHANGED schedVars

----------------------------------------------------------------------------
(* Scheduler: scheduler.py, StockDataScheduler *)

\* the last cached day itself, as if `+ timedelta(days=1)` were missing
GetLastPriceDate_SameDay(symbol, readok, tbl, prices, now) ==
    IF ~readok
    THEN [start |-> now - FallbackDays, source |-> "fallback"]
    ELSE IF HasBars(symbol, tbl, prices)
    THEN [start |-> MaxDate(symbol, tbl, prices), source |-> "cached"]
    ELSE [start |-> now - BootstrapDays, source |-> "bootstrap"]

\* as if the except branch fell back to the 30 days of the empty cache
GetLastPriceDate_FallbackThirty(symbol, readok, tbl, prices, now) ==
    IF ~readok
    THEN [start |-> now - BootstrapDays, source |-> "fallback"]
    ELSE IF HasBars(symbol, tbl, prices)
    THEN [start |-> MaxDate(symbol, tbl, prices) + 1, source |-> "cached"]
    ELSE [start |-> now - BootstrapDays, source |-> "bootstrap"]

\* get_last_price_date: the day after MAX(date), else 30 days back; 7 days
\* back when the read raises
GetLastPriceDate(symbol, readok, tbl, prices, now) ==
    IF ~readok
    THEN [start |-> now - FallbackDays, source |-> "fallback"]
    ELSE IF HasBars(symbol, tbl, prices)
    THEN [start |-> MaxDate(symbol, tbl, prices) + 1, source |-> "cached"]
    ELSE [start |-> now - BootstrapDays, source |-> "bootstrap"]

\* as if the "already up to date" return were missing
UpToDate_Never(start_date, end_date) == FALSE

\* `start_date.date() > end_date.date()`
UpToDate(start_date, end_date) == start_date > end_date

\* self.alpaca_client.get_daily_stock_data_range(...): AlpacaDataClient
\* defines get_daily_stock_data and search_symbols only, so the attribute
\* lookup raises AttributeError before any provider call is made
GetDailyStockDataRange(symbol, start_date, end_date) ==
    [raised |-> "AttributeError", data |-> <<>>]

\* get_last_price_date: `async with db_manager.get_connection() as conn:`
\* inside the try, left by a return or by the exception of a failed read
GetLastPriceDateEvents == <<"acquire", "release">>

\* the cache connection and the range request of one
\* fetch_incremental_stock_data, in the order of the code
FetchEvents(kind) ==
    IF kind = "no_client" THEN <<>>
    ELSE IF kind = "up_to_date" THEN GetLastPriceDateEvents
    ELSE GetLastPriceDateEvents \o <<"request">>

\* fetch_incremental_stock_data
FetchIncrementalStockData(symbol, readok, client, tbl, prices, now) ==
    IF client = "None"
    THEN [symbol |-> symbol, success |-> FALSE, new_records |-> 0, kind |-> "no_client",
          start |-> 0, end |-> 0, source |-> "none", range_call |-> FALSE]
    ELSE LET plan == GetLastPriceDate(symbol, readok, tbl, prices, now)
             end_date == now - 1
         IN  IF UpToDate(plan.start, end_date)
             THEN [symbol |-> symbol, success |-> TRUE, new_records |-> 0, kind |-> "up_to_date",
                   start |-> plan.start, end |-> end_date, source |-> plan.source,
                   range_call |-> FALSE]
             ELSE LET r == GetDailyStockDataRange(symbol, plan.start, end_date)
                  IN  IF r.raised = "none"
                      THEN [symbol |-> symbol, success |-> TRUE, new_records |-> Len(r.data),
                            kind |-> "fetched", start |-> plan.start, end |-> end_date,
                            source |-> plan.source, range_call |-> TRUE]
                      ELSE [symbol |-> symbol, success |-> FALSE, new_records |-> 0,
                            kind |-> r.raised, start |-> plan.start, end |-> end_date,
                            source |-> plan.source, range_call |-> TRUE]

\* as if the query had no condition on status
TodayRuns_AnyStatus(logs, now) ==
    Cardinality({i \in 1..Len(logs) : /\ logs[i].job_type = "daily_update"
                                      /\ logs[i].day = now})

\* SELECT COUNT(*) FROM scheduler_logs WHERE job_type = 'daily_update'
\* AND DATE(started_at) = CURRENT_DATE AND status IN ('completed', 'partial_success')
TodayRuns(logs, now) ==
    Cardinality({i \in 1..Len(logs) : /\ logs[i].job_type = "daily_update"
                                      /\ logs[i].day = now
                                      /\ logs[i].status \in {"completed", "partial_success"}})

\* as if the test were `now.weekday() > 5`
IsWeekend_SundayOnly(now) == now % 7 > LastWeekday + 1

\* `now.weekday() > 4`
IsWeekend(now) == now % 7 > LastWeekday

\* as if the query were `status = 'completed'`
ShouldRunUpdate_CompletedOnly(now, readok, logs) ==
    IF IsWeekend(now) THEN [answer |-> FALSE, why |-> "weekend"]
    ELSE IF ~readok THEN [answer |-> TRUE, why |-> "fail_open"]
    ELSE IF \E i \in 1..Len(logs) : /\ logs[i].job_type = "daily_update"
                                      /\ logs[i].day = now
                                      /\ logs[i].status = "completed"
         THEN [answer |-> FALSE, why |-> "already"]
    ELSE [answer |-> TRUE, why |-> "eligible"]

\* as if the except branch returned False
ShouldRunUpdate_FailClosed(now, readok, logs) ==
    IF IsWeekend(now) THEN [answer |-> FALSE, why |-> "weekend"]
    ELSE IF ~readok THEN [answer |-> FALSE, why |-> "fail_open"]
    ELSE IF TodayRuns(logs, now) > 0 THEN [answer |-> FALSE, why |-> "already"]
    ELSE [answer |-> TRUE, why |-> "eligible"]

\* should_run_update: answer and the branch that gave it
ShouldRunUpdate(now, readok, logs) ==
    IF IsWeekend(now) THEN [answer |-> FALSE, why |-> "weekend"]
    ELSE IF ~readok THEN [answer |-> TRUE, why |-> "fail_open"]
    ELSE IF TodayRuns(logs, now) > 0 THEN [answer |-> FALSE, why |-> "already"]
    ELSE [answer |-> TRUE, why |-> "eligible"]

\* run_scheduler: `if result["failed"] == 0 ... elif result["processed"] > 0 ... else`
RunStatus(nprocessed, nfailed) ==
    IF nfailed = 0 THEN "completed"
    ELSE IF nprocessed > 0 THEN "partial_success"
    ELSE "failed"

\* as if the status argument were dropped and every row said completed
LogRow_AlwaysCompleted(job_type, status, now, via) ==
    [job_type |-> job_type, status |-> "completed", day |-> now, via |-> via]

\* the row log_scheduler_run inserts: started_at is the day of the insert;
\* result_data, which nothing reads back, is left out; `via` is history, the
\* branch of should_run_update that admitted the run
LogRow(job_type, status, now, via) ==
    [job_type |-> job_type, status |-> status, day |-> now, via |-> via]

\* update_favorite_stocks: `if result["success"]: processed += 1`
NextProcessed(result, nprocessed) == IF result.success THEN nprocessed + 1 ELSE nprocessed

\* as if failures were counted in the except branch only
NextFailed_Uncounted(result, nfailed) == nfailed

\* update_favorite_stocks: `else: failed += 1`
NextFailed(result, nfailed) == IF result.success THEN nfailed ELSE nfailed + 1

\* update_favorite_stocks: `total_new_records += result.get("new_records", 0)`
NextTotal(result, total) == IF result.success THEN total + result.new_records ELSE total

\* as if the asyncio.sleep(1) stood in the success branch
PacingAfter_SuccessOnly(result) == IF result.success THEN PacingDelay ELSE 0

\* update_favorite_stocks: `await asyncio.sleep(1)` follows the if/else on
\* result["success"] inside the try, so it is awaited after every result
\* that fetch_incremental_stock_data returns
PacingAfter(result) == PacingDelay

\* as if a failed symbol ended the loop
LoopNext_AbortOnFailure(result, remaining) ==
    IF remaining > 0 /\ result.success THEN "fetch" ELSE "log"

\* update_favorite_stocks: the for loop goes on to the next symbol whatever
\* the result, and ends after the last one
LoopNext(result, remaining) == IF remaining > 0 THEN "fetch" ELSE "log"

\* the orders in which SELECT DISTINCT may return a set of symbols
Orders(S) == {q \in [1..Cardinality(S) -> S] : \A i, j \in 1..Cardinality(S) : i # j => q[i] # q[j]}

NoGate == "none"

\* stop() has not been called
NoStop == [pc |-> "none", done |-> 0, logs |-> 0]

\* run_scheduler: self.running = True
RunScheduler ==
    /\ pc = "init"
    /\ running' = TRUE
    /\ pc' = "loop"
    /\ UNCHANGED <<today, alpaca_client, gate, favorite_symbols, results, processed, failed,
                   total_new_records, lastWait, scheduler_logs>>
    /\ UNCHANGED <<argv1, stop_point>>
    /\ UNCHANGED storeVars

\* as if the loop were `while True`
LoopTest_WhileTrue ==
    /\ pc = "loop"
    /\ Len(scheduler_logs) < MaxLogs
    /\ pc' = "gate"
    /\ UNCHANGED <<today, alpaca_client, running, gate, favorite_symbols, results, processed,
                   failed, total_new_records, lastWait, scheduler_logs, argv1, stop_point>>
    /\ UNCHANGED storeVars

\* run_scheduler: `while self.running`
LoopTest ==
    /\ pc = "loop"
    /\ Len(scheduler_logs) < MaxLogs \/ ~running
    /\ pc' = IF running THEN "gate" ELSE "exited"
    /\ UNCHANGED <<today, alpaca_client, running, gate, favorite_symbols, results, processed,
                   failed, total_new_records, lastWait, scheduler_logs>>
    /\ UNCHANGED <<argv1, stop_point>>
    /\ UNCHANGED storeVars

\* run_scheduler: `if await self.should_run_update()`
Gate(readok) ==
    /\ pc = "gate"
    /\ LET g == ShouldRunUpdate(today, readok, scheduler_logs)
       IN  /\ gate' = g.why
           /\ pc' = IF g.answer THEN "start" ELSE "sleep"
    /\ UNCHANGED <<today, alpaca_client, running, favorite_symbols, results, processed, failed,
                   total_new_records, lastWait, scheduler_logs>>
    /\ UNCHANGED <<argv1, stop_point>>
    /\ UNCHANGED storeVars

\* update_favorite_stocks up to its loop: get_favorite_symbols answers the
\* symbols in some order, [] when its query raises, and raises itself when no
\* connection can be acquired; run_scheduler catches that, the one-shot
\* branches of main leave it to main's `except Exception`
StartRun(db, order) ==
    /\ pc = "start"
    /\ order \in Orders(FavoriteSymbolSet(stocks, favorites))
    /\ favorite_symbols' = IF db = "ok" THEN order ELSE <<>>
    /\ pc' = IF db = "acquire_error" THEN (IF argv1 = "none" THEN "errlog" ELSE "exited")
             ELSE IF db = "query_error" \/ order = <<>> THEN "log"
             ELSE "fetch"
    /\ results' = <<>>
    /\ processed' = 0
    /\ failed' = 0
    /\ total_new_records' = 0
    /\ UNCHANGED <<today, alpaca_client, running, gate, lastWait, scheduler_logs>>
    /\ UNCHANGED <<argv1, stop_point>>
    /\ UNCHANGED storeVars

\* update_favorite_stocks: one turn of `for symbol in favorite_symbols`,
\* with its counting and its asyncio.sleep(1)
FetchSymbol(readok) ==
    /\ pc = "fetch"
    /\ Len(results) < Len(favorite_symbols)
    /\ LET symbol == favorite_symbols[Len(results) + 1]
           result == FetchIncrementalStockData(symbol, readok, alpaca_client, stocks,
                                               stock_prices, today)
       IN  /\ results' = Append(results, result @@ [paced |-> PacingAfter(result),
                                                      events |-> FetchEvents(result.kind)])
           /\ processed' = NextProcessed(result, processed)
           /\ total_new_records' = NextTotal(result, total_new_records)
           /\ failed' = NextFailed(result, failed)
           /\ pc' = LoopNext(result, Len(favorite_symbols) - (Len(results) + 1))
    /\ UNCHANGED <<today, alpaca_client, running, gate, favorite_symbols, lastWait,
                   scheduler_logs>>
    /\ UNCHANGED <<argv1, stop_point>>
    /\ UNCHANGED storeVars

\* run_scheduler: the status of the summary and log_scheduler_run, which
\* swallows a failed insert
LogRun(writeok) ==
    /\ pc = "log"
    /\ argv1 = "none"
    /\ scheduler_logs' =
          IF writeok
          THEN Append(scheduler_logs, LogRow("daily_update", RunStatus(processed, failed),
                                             today, gate))
          ELSE scheduler_logs
    /\ pc' = "sleep"
    /\ favorite_symbols' = <<>>
    /\ results' = <<>>
    /\ processed' = 0
    /\ failed' = 0
    /\ total_new_records' = 0
    /\ UNCHANGED <<today, alpaca_client, running, gate, lastWait>>
    /\ UNCHANGED <<argv1, stop_point>>
    /\ UNCHANGED storeVars

\* run_scheduler: asyncio.sleep(14400)
Sleep ==
    /\ pc = "sleep"
    /\ lastWait' = PollInterval
    /\ pc' = "loop"
    /\ gate' = NoGate
    /\ UNCHANGED <<today, alpaca_client, running, favorite_symbols, results, processed,
                   failed, total_new_records, scheduler_logs>>
    /\ UNCHANGED <<argv1, stop_point>>
    /\ UNCHANGED storeVars

\* run_scheduler: `except Exception`: the error row
LogError(writeok) ==
    /\ pc = "errlog"
    /\ scheduler_logs' =
          IF writeok THEN Append(scheduler_logs, LogRow("daily_update", "error", today, gate))
          ELSE scheduler_logs
    /\ pc' = "errsleep"
    /\ UNCHANGED <<today, alpaca_client, running, gate, favorite_symbols, results, processed,
                   failed, total_new_records, lastWait>>
    /\ UNCHANGED <<argv1, stop_point>>
    /\ UNCHANGED storeVars

\* as if the except branch waited the poll interval
ErrorSleep_PollInterval ==
    /\ pc = "errsleep"
    /\ lastWait' = PollInterval
    /\ pc' = "loop"
    /\ gate' = NoGate
    /\ UNCHANGED <<today, alpaca_client, running, favorite_symbols, results, processed,
                   failed, total_new_records, scheduler_logs, argv1, stop_point>>
    /\ UNCHANGED storeVars

\* run_scheduler: asyncio.sleep(300)
ErrorSleep ==
    /\ pc = "errsleep"
    /\ lastWait' = ErrorInterval
    /\ pc' = "loop"
    /\ gate' = NoGate
    /\ UNCHANGED <<today, alpaca_client, running, favorite_symbols, results, processed,
                   failed, total_new_records, scheduler_logs>>
    /\ UNCHANGED <<argv1, stop_point>>
    /\ UNCHANGED storeVars

\* stop, called while run_scheduler is looping
Stop ==
    /\ pc \notin {"init", "exited"}
    /\ running
    /\ running' = FALSE
    /\ stop_point' = [pc |-> pc, done |-> Len(results), logs |-> Len(scheduler_logs)]
    /\ UNCHANGED <<today, alpaca_client, pc, gate, favorite_symbols, results, processed,
                   failed, total_new_records, lastWait, scheduler_logs, argv1>>
    /\ UNCHANGED storeVars

\* main with sys.argv[1] == "manual": run_manual_update up to its run
RunManualUpdate ==
    /\ pc = "init"
    /\ argv1' = "manual"
    /\ gate' = "manual"
    /\ pc' = IF alpaca_client = "None" THEN "exited" ELSE "start"
    /\ UNCHANGED <<today, alpaca_client, running, favorite_symbols, results, processed, failed,
                   total_new_records, lastWait, scheduler_logs, stop_point>>
    /\ UNCHANGED storeVars

\* main with sys.argv[1] == "once": `if await scheduler.should_run_update()`
RunOnce(readok) ==
    /\ pc = "init"
    /\ argv1' = "once"
    /\ LET g == ShouldRunUpdate(today, readok, scheduler_logs)
       IN  /\ gate' = g.why
           /\ pc' = IF g.answer THEN "start" ELSE "exited"
    /\ UNCHANGED <<today, alpaca_client, running, favorite_symbols, results, processed, failed,
                   total_new_records, lastWait, scheduler_logs, stop_point>>
    /\ UNCHANGED storeVars

\* the job_type the one-shot branches log under
OneShotJobType(arg) == IF arg = "manual" THEN "manual_update" ELSE "cron_update"

\* run_manual_update and the "once" branch of main after the run:
\* log_scheduler_run(<job_type>, "completed", result), then main returns
LogOneShot(writeok) ==
    /\ pc = "log"
    /\ argv1 \in {"manual", "once"}
    /\ scheduler_logs' =
          IF writeok
          THEN Append(scheduler_logs, LogRow(OneShotJobType(argv1), "completed", today, gate))
          ELSE scheduler_logs
    /\ pc' = "exited"
    /\ favorite_symbols' = <<>>
    /\ results' = <<>>
    /\ processed' = 0
    /\ failed' = 0
    /\ total_new_records' = 0
    /\ UNCHANGED <<today, alpaca_client, running, gate, lastWait, argv1, stop_point>>
    /\ UNCHANGED storeVars

\* the one-shot process has ended and the script is invoked again, on the
\* same database
MainAgain ==
    /\ pc = "exited"
    /\ argv1 \in {"manual", "once"}
    /\ Len(scheduler_logs) < MaxLogs
    /\ pc' = "init"
    /\ argv1' = "none"
    /\ gate' = NoGate
    /\ UNCHANGED <<today, alpaca_client, running, favorite_symbols, results, processed, failed,
                   total_new_records, lastWait, scheduler_logs, stop_point>>
    /\ UNCHANGED storeVars

\* midnight
Tick ==
    /\ today < FirstDay + MaxDays
    /\ today' = today + 1
    /\ UNCHANGED <<schedVars, callers>>
    /\ UNCHANGED storeVars

----------------------------------------------------------------------------
(* Specifications *)

\* the scheduler after __init__ and initialize()
SchedulerInit ==
    /\ alpaca_client = "client"
    /\ running = FALSE
    /\ pc = "init"
    /\ gate = NoGate
    /\ favorite_symbols = <<>>
    /\ results = <<>>
    /\ processed = 0
    /\ failed = 0
    /\ total_new_records = 0
    /\ lastWait = 0
    /\ scheduler_logs = <<>>
    /\ argv1 = "none"
    /\ stop_point = NoStop

\* the three instruments of the database the scheduler is started on
KnownStocks ==
    {[id |-> 1, symbol |-> <<"A">>, name |-> NoName],
     [id |-> 2, symbol |-> <<"B">>, name |-> "Acme"],
     [id |-> 3, symbol |-> <<"C">>, name |-> NoName]}

\* what the cache may hold of each instrument when the scheduler starts:
\* bars up to yesterday, bars that end earlier, or nothing
CachedDates(i) ==
    CASE i = 1 -> {{FirstDay - 1}}
      [] i = 2 -> {{FirstDay - 4, FirstDay - 3}}
      [] OTHER -> {{}, {FirstDay - 1}}

\* The scheduler is started on a database that earlier requests have filled:
\* any set of favorites among the known instruments, and for each instrument
\* one of the caches above.
Init ==
    /\ today = FirstDay
    /\ stocks = KnownStocks
    /\ \E fs \in SUBSET {s.id : s \in KnownStocks} :
          favorites = {[id |-> 3 + i, stock_id |-> i, added_at |-> FirstDay - 5] : i \in fs}
    /\ \E c \in {f \in [{s.id : s \in KnownStocks} -> SUBSET ((FirstDay - 4)..(FirstDay - 1))] :
                    \A i \in DOMAIN f : f[i] \in CachedDates(i)} :
          /\ stock_prices = UNION {{PriceRow(i, Bar(d, 1)) : d \in c[i]} : i \in DOMAIN c}
          /\ lastWrite = [k \in UNION {{<<i, d>> : d \in c[i]} : i \in DOMAIN c} |->
                             [open |-> 1, high |-> 2, low |-> 0, close |-> 1, volume |-> 10]]
    /\ nextId = 7
    /\ last = NoCall
    /\ SchedulerInit
    /\ callers = NoCallers

Next ==
    \/ RunScheduler
    \/ LoopTest
    \/ \E readok \in BOOLEAN : Gate(readok)
    \/ \E db \in {"ok", "query_error", "acquire_error"} :
          \E order \in Orders(FavoriteSymbolSet(stocks, favorites)) : StartRun(db, order)
    \/ \E readok \in BOOLEAN : FetchSymbol(readok)
    \/ \E writeok \in BOOLEAN : LogRun(writeok)
    \/ Sleep
    \/ \E writeok \in BOOLEAN : LogError(writeok)
    \/ ErrorSleep
    \/ Tick

Spec == Init /\ [][Next]_vars

\* the steps of the run_scheduler coroutine
SchedulerStep ==
    \/ RunScheduler
    \/ LoopTest
    \/ \E readok \in BOOLEAN : Gate(readok)
    \/ \E db \in {"ok", "query_error", "acquire_error"} :
          \E order \in Orders(FavoriteSymbolSet(stocks, favorites)) : StartRun(db, order)
    \/ \E readok \in BOOLEAN : FetchSymbol(readok)
    \/ \E writeok \in BOOLEAN : LogRun(writeok)
    \/ Sleep
    \/ \E writeok \in BOOLEAN : LogError(writeok)
    \/ ErrorSleep

\* the service with stop() called from outside at any point of the loop
NextStop ==
    \/ SchedulerStep
    \/ Stop
    \/ Tick

\* the service started on a database whose favorites are among the first
\* two instruments
InitStop ==
    /\ Init
    /\ \A f \in favorites : f.stock_id # 3
    /\ \A r \in stock_prices : r.stock_id # 3

\* The event loop keeps running the coroutine: every await of run_scheduler
\* returns (a sleep ends, a database call answers or raises).
SpecStop == InitStop /\ [][NextStop]_vars /\ WF_vars(SchedulerStep)

\* the script invoked with "manual" or "once", any number of times
NextOneShot ==
    \/ RunManualUpdate
    \/ \E readok \in BOOLEAN : RunOnce(readok)
    \/ \E db \in {"ok", "query_error", "acquire_error"} :
          \E order \in Orders(FavoriteSymbolSet(stocks, favorites)) : StartRun(db, order)
    \/ \E readok \in BOOLEAN : FetchSymbol(readok)
    \/ \E writeok \in BOOLEAN : LogOneShot(writeok)
    \/ MainAgain
    \/ Tick

SpecOneShot == Init /\ [][NextOneShot]_vars

\* the API server on a fresh database, no scheduler running
InitStore ==
    /\ today = FirstDay
    /\ stocks = {}
    /\ favorites = {}
    /\ stock_prices = {}
    /\ lastWrite = <<>>
    /\ nextId = 1
    /\ last = NoCall
    /\ SchedulerInit
    /\ callers = NoCallers

\* `days` of the API requests
FetchDays == {1}

\* the favorites requests of the API and the calls of the instrument table
NextStore ==
    \/ \E symbol \in RawSymbols, name \in Names : ApiAddFavorite(symbol, name)
    \/ \E symbol \in RawSymbols, db \in {"ok", "query_error"} : ApiRemoveFavorite(symbol, db)
    \/ \E symbol \in RawSymbols, name \in Names : CallGetOrCreateStock(symbol, name)
    \/ \E symbol \in RawSymbols, db \in {"ok", "query_error"} : ApiCheckFavorite(symbol, db)

SpecStore == InitStore /\ [][NextStore]_vars

\* symbols of the price requests
FetchSymbols == {<<"a">>, <<"B">>, <<" ">>}

\* the price requests of the API that go past the cache, each to the
\* provider and on to save_stock_prices
NextFetch ==
    \E symbol \in FetchSymbols, days \in FetchDays :
        ApiGetStockData(symbol, days, FALSE, TRUE)

SpecFetch == InitStore /\ [][NextFetch]_vars

\* the symbol of the requests whose cache read may fail
ServeSymbols == {<<"a">>, <<"A">>}

\* the price requests of the API, with and without the cache, the cache
\* read succeeding or failing
NextServe ==
    \E symbol \in ServeSymbols, days \in FetchDays, use_cache \in BOOLEAN, readok \in BOOLEAN :
        ApiGetStockData(symbol, days, use_cache, readok)

SpecServe == InitStore /\ [][NextServe]_vars

\* the symbol of the requests that run beside the scheduler
CacheSymbols == {<<"a">>}

\* the API requests on the cache and the scheduler's sync runs, side by
\* side on one database
NextCache ==
    \/ \E symbol \in CacheSymbols : ApiAddFavorite(symbol, NoName)
    \/ \E symbol \in CacheSymbols : ApiRemoveFavorite(symbol, "ok")
    \/ \E symbol \in CacheSymbols, days \in FetchDays : ApiGetStockData(symbol, days, FALSE, TRUE)
    \/ RunScheduler
    \/ LoopTest
    \/ Gate(TRUE)
    \/ \E order \in Orders(FavoriteSymbolSet(stocks, favorites)) : StartRun("ok", order)
    \/ FetchSymbol(TRUE)
    \/ LogRun(TRUE)
    \/ Sleep

SpecCache == InitStore /\ [][NextCache]_vars

\* the price requests of the API that read the cache first, the read
\* succeeding or failing, beside the sync runs of the scheduler over the
\* favorites, on one database
NextHold ==
    \/ \E symbol \in CacheSymbols : ApiAddFavorite(symbol, NoName)
    \/ \E symbol \in CacheSymbols, days \in FetchDays, readok \in BOOLEAN :
          ApiGetStockData(symbol, days, TRUE, readok)
    \/ RunScheduler
    \/ LoopTest
    \/ Gate(TRUE)
    \/ \E order \in Orders(FavoriteSymbolSet(stocks, favorites)) : StartRun("ok", order)
    \/ \E readok \in BOOLEAN : FetchSymbol(readok)
    \/ LogRun(TRUE)
    \/ Sleep

SpecHold == InitStore /\ [][NextHold]_vars

\* symbols of the concurrent requests
RaceSymbols == {<<"a">>, <<"A">>, <<"B">>}

\* two add_favorite requests and a remove_favorite on one database, the
\* steps of the two add_favorite calls interleaved at their awaits
NextRace ==
    \/ \E c \in Callers, symbol \in RaceSymbols : AddFavoriteBegin(c, symbol, NoName)
    \/ \E c \in Callers : AddFavoriteSelectStock(c)
    \/ \E c \in Callers : AddFavoriteInsertStock(c)
    \/ \E c \in Callers : AddFavoriteInsertFavorite(c)
    \/ \E c \in Callers : AddFavoriteReturn(c)
    \/ \E symbol \in RaceSymbols : ApiRemoveFavorite(symbol, "ok")

SpecRace == InitStore /\ [][NextRace]_vars

\* `days` of the calls of get_stock_prices: below, at and above the number
\* of cached bars
QueryDays == 0..3

\* reads of the price cache of a database that earlier requests have filled
NextQuery ==
    \E symbol \in RawSymbols, days \in QueryDays : CallGetStockPrices(symbol, days)

SpecQuery == Init /\ [][NextQuery]_vars

----------------------------------------------------------------------------
(* Claims *)

\* Saturday or Sunday
Weekend(day) == day % 7 \in {5, 6}

\* a scheduler_logs row the gate of should_run_update counts
Successful(row) ==
    row.job_type = "daily_update" /\ row.status \in {"completed", "partial_success"}

\* the step of run_scheduler that evaluates should_run_update
GateStep == pc = "gate" /\ pc' # "gate"

\* the step of update_favorite_stocks that handles one symbol
FetchStep == pc = "fetch" /\ Len(results') = Len(results) + 1

\* the step of run_scheduler that writes the row of a finished run
LogStep == pc = "log" /\ Len(scheduler_logs') = Len(scheduler_logs) + 1

\* C1, as stated: on a weekday should_run_update answers false exactly when
\* a completed or partial-success daily_update row of the current day
\* exists, and no day ever has two such rows.
C1_OncePerDayAsStated ==
    [][ /\ (GateStep /\ ~Weekend(today)) =>
              (pc' = "sleep" <=> \E i \in 1..Len(scheduler_logs) :
                                    Successful(scheduler_logs[i]) /\ scheduler_logs[i].day = today)
        /\ \A i, j \in 1..Len(scheduler_logs') :
              (/\ i < j
               /\ Successful(scheduler_logs'[i])
               /\ Successful(scheduler_logs'[j])) => scheduler_logs'[i].day # scheduler_logs'[j].day
      ]_vars

\* C1, amended: on a weekday, when the run history can be read,
\* should_run_update answers false exactly when a completed or
\* partial-success daily_update row of the current day exists; when the read
\* fails it answers true; and a day has a second such row only from a run
\* that a failed history read admitted.
C1_OncePerDay ==
    [][ /\ (GateStep /\ ~Weekend(today) /\ gate' # "fail_open") =>
              (pc' = "sleep" <=> \E i \in 1..Len(scheduler_logs) :
                                    Successful(scheduler_logs[i]) /\ scheduler_logs[i].day = today)
        /\ (GateStep /\ gate' = "fail_open") => (pc' = "start" /\ ~Weekend(today))
        /\ \A i, j \in 1..Len(scheduler_logs') :
              (/\ i < j
               /\ Successful(scheduler_logs'[i])
               /\ Successful(scheduler_logs'[j])
               /\ scheduler_logs'[i].day = scheduler_logs'[j].day) =>
                  scheduler_logs'[j].via = "fail_open"
      ]_vars

\* the gate has answered false because of a row of the current day
C1_GateClosed ==
    /\ pc = "sleep"
    /\ gate = "already"
    /\ \E i \in 1..Len(scheduler_logs) :
          Successful(scheduler_logs[i]) /\ scheduler_logs[i].day = today

\* C2, as stated: a favorite whose cached bars end at D with D + 1 <= yesterday
\* has the range [D + 1, yesterday] requested from the provider and is
\* reported as a success carrying the bars returned.
C2_IncrementalSync ==
    \A i \in 1..Len(results) :
        (results[i].source = "cached" /\ results[i].start <= results[i].end) =>
            (results[i].range_call /\ results[i].success /\ results[i].kind = "fetched")

\* C3: the cache holds at most one bar per (instrument, date), and its
\* open/high/low/close/volume are those of the latest successful write of
\* that pair.
C3_UpsertReplaces ==
    /\ \A r, q \in stock_prices : (r.stock_id = q.stock_id /\ r.date = q.date) => r = q
    /\ \A r \in stock_prices :
          /\ <<r.stock_id, r.date>> \in DOMAIN lastWrite
          /\ [open |-> r.open, high |-> r.high, low |-> r.low, close |-> r.close,
              volume |-> r.volume] = lastWrite[<<r.stock_id, r.date>>]
    /\ \A k \in DOMAIN lastWrite : \E r \in stock_prices : <<r.stock_id, r.date>> = k

\* a save has replaced a cached bar by one with another close
C3_Replaced ==
    /\ last.op = "get_daily_stock_data"
    /\ last.replaced > 0
    /\ Cardinality(stock_prices) >= 2

\* C4, as stated: a second add_favorite with the same argument returns the
\* record of the first without an error and leaves one favorites row.
C4_IdempotentAdd ==
    [][ (/\ last.op = "add_favorite"
         /\ last.outcome = "ok"
         /\ last'.op = "add_favorite"
         /\ last'.symbol = last.symbol) =>
            (/\ last'.outcome = "ok"
             /\ last'.fav = last.fav
             /\ Cardinality({f \in favorites' : f.stock_id = last.fav.stock_id}) = 1)
      ]_vars

\* C5: with a latest cached date D the planned start is D + 1; with no
\* cached bar the plan is [today - 30, today - 1], 30 days; the planned end
\* is yesterday in both cases.
C5_PlannerWindow ==
    [][ FetchStep =>
          LET r == results'[Len(results')]
              dates == {p.date : p \in {q \in stock_prices :
                            \E s \in stocks : s.symbol = r.symbol /\ s.id = q.stock_id}}
          IN  /\ r.source \in {"cached", "bootstrap", "fallback"}
              /\ r.source = "cached" =>
                    (r.start - 1 \in dates /\ \A d \in dates : d < r.start)
              /\ r.source = "bootstrap" =>
                    (dates = {} /\ r.start = today - 30 /\ r.end - r.start + 1 = 30)
              /\ r.source # "fallback" => (r.source = "cached" <=> dates # {})
              /\ r.source # "fallback" => r.end = today - 1
      ]_vars

\* one run has planned a symbol from its cached bars and one from none
C5_BothPlans ==
    /\ \E i \in 1..Len(results) : results[i].source = "cached"
    /\ \E i \in 1..Len(results) : results[i].source = "bootstrap"

\* C6: a symbol whose planned start is after its planned end is a success
\* with zero new records, and the provider call is not reached for it.
C6_ShortCircuit ==
    \A i \in 1..Len(results) :
        results[i].start > results[i].end =>
            (/\ results[i].success
             /\ results[i].new_records = 0
             /\ results[i].kind = "up_to_date"
             /\ ~results[i].range_call)

\* a symbol of the run was already up to date
C6_UpToDateSeen ==
    \E i \in 1..Len(results) :
        results[i].start > results[i].end /\ results[i].source = "cached"

\* C7, as stated: the recorded status is completed exactly when the favorite
\* set is non-empty and no symbol failed, failed when none succeeded and one
\* failed, partial-success when one succeeded and one failed.
C7_StatusClassification ==
    [][ LogStep =>
          LET st == scheduler_logs'[Len(scheduler_logs')].status
          IN  /\ st = "completed" <=> (FavoriteSymbolSet(stocks, favorites) # {} /\ failed = 0)
              /\ (processed = 0 /\ failed > 0) => st = "failed"
              /\ (processed > 0 /\ failed > 0) => st = "partial_success"
      ]_vars

\* C8: processed counts the successes and failed the failures of the run,
\* and at its end they add up to the number of symbols the run obtained.
C8_RunCounting ==
    pc \in {"fetch", "log"} =>
        /\ processed = Cardinality({i \in 1..Len(results) : results[i].success})
        /\ failed = Cardinality({i \in 1..Len(results) : ~results[i].success})
        /\ pc = "log" => processed + failed = Len(favorite_symbols)

\* a run with outcomes [success, failure, success] has ended
C8_SuccessFailureSuccess ==
    /\ pc = "log"
    /\ Len(results) = 3
    /\ results[1].success /\ ~results[2].success /\ results[3].success
    /\ processed = 2
    /\ failed = 1

\* C9, as stated: on a Saturday or Sunday should_run_update answers false,
\* no run is started and no daily_update row is written.
C9_WeekendAsStated ==
    [][ (Weekend(today) /\ today' = today) =>
            (/\ GateStep => pc' = "sleep"
             /\ ~(pc = "start" /\ pc' # "start")
             /\ scheduler_logs' = scheduler_logs)
      ]_vars

\* C9, amended: on a Saturday or Sunday should_run_update answers false
\* whatever the run history and whether or not it can be read, and a loop
\* iteration whose check was made on such a day starts no run and writes no
\* row (a run admitted on Friday may still end, and be recorded, after
\* midnight).
C9_WeekendGate ==
    [][ /\ (GateStep /\ Weekend(today)) => (pc' = "sleep" /\ gate' = "weekend")
        /\ (GateStep /\ ~Weekend(today)) => gate' # "weekend"
        /\ gate = "weekend" =>
              (/\ pc' \in {"sleep", "loop"}
               /\ scheduler_logs' = scheduler_logs)
      ]_vars

\* the gate has answered false on a weekend, with a run in the history
C9_WeekendSkipped ==
    /\ Weekend(today)
    /\ pc = "sleep"
    /\ gate = "weekend"
    /\ scheduler_logs # <<>>

\* C10: the symbols attempted so far are, one attempt each and in order,
\* the first of the symbols obtained at the start of the run; the run ends
\* only after the last of them; and an error is raised only before the
\* first attempt.
C10_FailureIsolation ==
    /\ pc \in {"fetch", "log"} =>
          /\ Len(results) <= Len(favorite_symbols)
          /\ \A i \in 1..Len(results) : results[i].symbol = favorite_symbols[i]
          /\ \A i, j \in 1..Len(favorite_symbols) :
                i # j => favorite_symbols[i] # favorite_symbols[j]
    /\ pc = "fetch" => Len(results) < Len(favorite_symbols)
    /\ pc = "log" => Len(results) = Len(favorite_symbols)
    /\ pc \in {"errlog", "errsleep"} => results = <<>>

\* a run in which the first symbol failed has attempted the others and ended
C10_WentOnAfterFailure ==
    /\ pc = "log"
    /\ Len(results) >= 2
    /\ ~results[1].success

\* the aggregate status of a run with at least one per-symbol outcome
Aggregate(outcomes) ==
    IF \A i \in 1..Len(outcomes) : outcomes[i].success THEN "completed"
    ELSE IF \E i \in 1..Len(outcomes) : outcomes[i].success THEN "partial_success"
    ELSE "failed"

\* the scheduler_logs row a step has appended, if it has appended one
Appended(job_type, statuses) ==
    /\ Len(scheduler_logs') = Len(scheduler_logs) + 1
    /\ SubSeq(scheduler_logs', 1, Len(scheduler_logs)) = scheduler_logs
    /\ scheduler_logs'[Len(scheduler_logs')].job_type = job_type
    /\ scheduler_logs'[Len(scheduler_logs')].status \in statuses

\* the path of one loop iteration: a started run goes through its symbols to
\* the record of the run or, when it raised, to the error record, and only
\* from there to a wait; rows are written at those two places only
RunThenRecordThenWait ==
    /\ pc = "start" => pc' \in {"start", "fetch", "log", "errlog"}
    /\ pc = "fetch" => pc' \in {"fetch", "log"}
    /\ pc = "log" => pc' \in {"log", "sleep"}
    /\ pc = "errlog" => pc' \in {"errlog", "errsleep"}
    /\ pc' = "gate" => pc \in {"gate", "loop"}
    /\ scheduler_logs' # scheduler_logs => (pc \in {"log", "errlog"} /\ pc' # pc)

\* C11, as stated: every run the loop starts is followed by exactly one
\* persisted daily_update row carrying the run's aggregate status, or error
\* if the run raised, written after the run and before the next wait and the
\* next eligibility check.
C11_OneRecordAsStated ==
    [][ /\ RunThenRecordThenWait
        /\ (pc = "log" /\ pc' # pc) =>
              Appended("daily_update",
                       IF results = <<>> THEN {"completed", "failed"} ELSE {Aggregate(results)})
        /\ (pc = "errlog" /\ pc' # pc) => Appended("daily_update", {"error"})
      ]_vars

\* C11, amended: every run the loop starts is followed, after the run and
\* before the next wait and the next eligibility check, by one insert of a
\* daily_update row carrying the run's aggregate status, or error if the
\* run raised; the row is persisted unless the insert fails, which is
\* swallowed, so at most one row is persisted per run.
C11_OneRecord ==
    [][ /\ RunThenRecordThenWait
        /\ (pc = "log" /\ pc' # pc) =>
              \/ scheduler_logs' = scheduler_logs
              \/ Appended("daily_update",
                       IF results = <<>> THEN {"completed", "failed"} ELSE {Aggregate(results)})
        /\ (pc = "errlog" /\ pc' # pc) =>
              \/ scheduler_logs' = scheduler_logs
              \/ Appended("daily_update", {"error"})
      ]_vars

\* a run the gate admitted has ended with failures and its row is persisted
C11_RunRecorded ==
    /\ pc = "sleep"
    /\ gate = "eligible"
    /\ \E i \in 1..Len(scheduler_logs) :
          /\ scheduler_logs[i].day = today
          /\ scheduler_logs[i].status = "partial_success"

\* C12, as stated: when an exception escapes the run inside the loop, the
\* loop persists a row with status error, waits 300 s and not 14400 s, and
\* goes on polling; it never ends because of the exception.
C12_ErrorBackoffAsStated ==
    [][ /\ (pc = "errlog" /\ pc' # pc) =>
              (Appended("daily_update", {"error"}) /\ pc' = "errsleep")
        /\ (pc = "errsleep" /\ pc' # pc) => (lastWait' = 300 /\ pc' = "loop")
        /\ (pc = "sleep" /\ pc' # pc) => (lastWait' = 14400 /\ pc' = "loop")
        /\ pc' = "exited" => pc \in {"exited", "loop"}
        /\ (pc = "loop" /\ running) => pc' \in {"loop", "gate"}
      ]_vars

\* C12, amended: when an exception escapes the run inside the loop, the
\* loop inserts a row with status error (persisted unless the insert itself
\* fails, which is swallowed), waits 300 s and not 14400 s, and goes on
\* polling; it never ends because of the exception.
C12_ErrorBackoff ==
    [][ /\ (pc = "errlog" /\ pc' # pc) =>
              /\ scheduler_logs' = scheduler_logs \/ Appended("daily_update", {"error"})
              /\ pc' = "errsleep"
        /\ (pc = "errsleep" /\ pc' # pc) => (lastWait' = 300 /\ pc' = "loop")
        /\ (pc = "sleep" /\ pc' # pc) => (lastWait' = 14400 /\ pc' = "loop")
        /\ pc' = "exited" => pc \in {"exited", "loop"}
        /\ (pc = "loop" /\ running) => pc' \in {"loop", "gate"}
      ]_vars

\* after a run that raised, the loop has waited 300 s and polls again
C12_BackedOff ==
    /\ pc = "gate"
    /\ lastWait = 300
    /\ scheduler_logs # <<>>
    /\ scheduler_logs[Len(scheduler_logs)].status = "error"

\* C13, as stated: once stop() has been called while run_scheduler is
\* looping, the loop eventually exits; a run in flight at the call finishes
\* and its row is persisted before the loop exits; and no new run is started
\* on a later iteration.
C13_CooperativeStopAsStated ==
    /\ [][ /\ RunThenRecordThenWait
           /\ pc' = "exited" => pc \in {"exited", "loop"}
           /\ (~running /\ pc = "loop") => pc' \in {"loop", "exited"}
           /\ (stop_point.pc \in {"start", "fetch", "log", "errlog"} /\ pc' = "exited") =>
                 Len(scheduler_logs') > stop_point.logs
         ]_vars
    /\ (stop_point # NoStop) ~> (pc = "exited")

\* C13, amended: once stop() has been called while run_scheduler is
\* looping, the loop eventually exits; a run in flight at the call finishes
\* and log_scheduler_run is called for it before the loop exits (its row is
\* persisted unless the insert fails, which is swallowed); and no new run is
\* started on a later iteration.
C13_CooperativeStop ==
    /\ [][ /\ RunThenRecordThenWait
           /\ pc' = "exited" => pc \in {"exited", "loop"}
           /\ (~running /\ pc = "loop") => pc' \in {"loop", "exited"}
           /\ (pc = "log" /\ pc' # pc) =>
                 \/ scheduler_logs' = scheduler_logs
                 \/ Appended("daily_update", {"completed", "partial_success", "failed"})
           /\ (stop_point.pc \in {"start", "fetch"} /\ pc = "fetch" /\ pc' = "log") =>
                 Len(results') = Len(favorite_symbols)
         ]_vars
    /\ (stop_point # NoStop) ~> (pc = "exited")

\* the loop has exited after a stop() that came while a symbol was being
\* fetched, and the row of that run is persisted
C13_StoppedAfterRun ==
    /\ pc = "exited"
    /\ stop_point.pc = "fetch"
    /\ Len(scheduler_logs) > stop_point.logs

\* C20, as stated: once stop() has been called while a symbol's fetch is in
\* flight, that fetch completes but no further symbol is fetched in that run.
C20_StopBetweenSymbols ==
    stop_point.pc = "fetch" => Len(results) <= stop_point.done + 1

\* C14, as stated: a manual or "once" invocation performs a sync pass only
\* when should_run_update is true; the row it persists carries the run's
\* aggregate status; and the row is counted by the same-day gate, so that a
\* later invocation whose gate can read the history does not run again on the
\* day of a completed or partial-success one-shot row.
C14_OneShotContract ==
    [][ /\ (pc = "init" /\ pc' = "start") =>
              /\ ~Weekend(today)
              /\ gate' \in {"eligible", "fail_open"}
              /\ gate' = "eligible" =>
                    ~\E i \in 1..Len(scheduler_logs) :
                        /\ scheduler_logs[i].day = today
                        /\ scheduler_logs[i].status \in {"completed", "partial_success"}
        /\ (pc = "log" /\ pc' # pc /\ scheduler_logs' # scheduler_logs /\ results # <<>>) =>
              scheduler_logs'[Len(scheduler_logs')].status = Aggregate(results)
      ]_vars

\* the instrument code a caller's symbol stands for: uppercase, without the
\* surrounding blanks; <<>> for an empty or blank symbol
Code(symbol) ==
    CASE symbol \in {<<"a">>, <<"A">>, <<" ", "a">>} -> <<"A">>
      [] symbol = <<"B">> -> <<"B">>
      [] OTHER -> <<>>

\* the favorites rows of an instrument code
Membership(favs, tbl, code) ==
    {f \in favs : \E t \in tbl : t.id = f.stock_id /\ t.symbol = code}

\* C15: remove_favorite returns true exactly when a favorites row of the
\* uppercased, trimmed symbol existed and was deleted by the call (as it is
\* whenever the DELETE statement does not fail), false when none existed,
\* and does not raise for a symbol that is not a favorite or not a known
\* instrument.
C15_RemoveFavorite ==
    [][ last'.op = "remove_favorite" =>
          LET code == Code(last'.symbol)
              before == Membership(favorites, stocks, code)
              after == Membership(favorites', stocks', code)
          IN  /\ last'.outcome = "ok"
              /\ last'.flag <=> (before # {} /\ after = {})
              /\ (before # {} /\ last'.source = "ok") => last'.flag
              /\ before = {} => (~last'.flag /\ favorites' = favorites)
              /\ favorites' \in {favorites, favorites \ before}
              /\ stocks' = stocks
      ]_vars

\* a favorite was removed under a padded lower-case spelling of its symbol
C15_RemovedPadded ==
    /\ last.op = "remove_favorite"
    /\ last.symbol = <<" ", "a">>
    /\ last.flag
    /\ \E t \in stocks : t.symbol = <<"A">>
    /\ Membership(favorites, stocks, <<"A">>) = {}

\* C17: get_or_create_stock stores and returns the symbol uppercased and
\* trimmed; fails with ValueError before any cache I/O for an empty or blank
\* symbol; and leaves exactly one row per code, returning the row already
\* stored, as stored, when there is one.
C17_GetOrCreateStock ==
    [][ last'.op = "get_or_create_stock" =>
          LET code == Code(last'.symbol)
              old == {t \in stocks : t.symbol = code}
          IN  IF code = <<>>
              THEN /\ last'.outcome = "ValueError"
                   /\ ~last'.io
                   /\ stocks' = stocks
                   /\ nextId' = nextId
              ELSE /\ last'.outcome = "ok"
                   /\ last'.stock.symbol = code
                   /\ {t \in stocks' : t.symbol = code} = {last'.stock}
                   /\ old # {} => (old = {last'.stock} /\ stocks' = stocks)
                   /\ old = {} => stocks' = stocks \cup {last'.stock}
                   /\ \A t \in stocks' : t.symbol \in {<<"A">>, <<"B">>}
      ]_vars

\* a call with a padded lower-case symbol and a name was answered with the
\* row stored earlier without a name
C17_SameRowAgain ==
    /\ last.op = "get_or_create_stock"
    /\ last.symbol = <<" ", "a">>
    /\ last.stock.symbol = <<"A">>
    /\ last.stock.name = NoName
    /\ \E t \in stocks : t.symbol = <<"B">> /\ t.id > last.stock.id

C18_PerBarFailures ==
    [][ (last'.op = "get_daily_stock_data" /\ last'.source = "provider" /\ last'.outcome = "ok") =>
          LET code == IF last'.symbol = <<"a">> THEN <<"A">>
                      ELSE IF last'.symbol = <<"B">> THEN <<"B">> ELSE <<>>
              ids == {t.id : t \in {u \in stocks' : u.symbol = code}}
              batch == {last'.data[i] : i \in 1..Len(last'.data)}
              good == {b \in batch : b.date \notin last'.failed_dates}
              Of(tbl, d) == {r \in tbl : r.stock_id \in ids /\ r.date = d}
          IN  IF code = <<>>
              THEN last'.saved = 0 /\ stock_prices' = stock_prices
              ELSE /\ last'.saved = Cardinality(good)
                   /\ \A b \in good :
                         \E r \in stock_prices' :
                             /\ Of(stock_prices', b.date) = {r}
                             /\ <<r.open, r.high, r.low, r.close, r.volume>> =
                                   <<b.open, b.high, b.low, b.close, b.volume>>
                   /\ \A d \in last'.failed_dates : Of(stock_prices', d) = Of(stock_prices, d)
                   /\ \A r \in stock_prices :
                         (r.stock_id \notin ids \/ r.date \notin {b.date : b \in batch}) =>
                             r \in stock_prices'
      ]_vars

\* of a batch of two bars the first failed and the second was written
C18_OneFailedOneWritten ==
    /\ last.op = "get_daily_stock_data"
    /\ Len(last.data) = 2
    /\ last.failed_dates = {last.data[2].date}
    /\ last.saved = 1
    /\ \E r \in stock_prices : r.date = last.data[1].date /\ r.close = last.data[1].close

\* the (instrument, date) keys of the cached bars
BarKeys(prices) == {<<r.stock_id, r.date>> : r \in prices}

\* C16: no operation deletes an instrument or a bar: over add_favorite,
\* remove_favorite, the saves of the API fetches and the sync runs, the
\* instrument rows and the cached (instrument, date) keys only grow, and
\* remove_favorite leaves the instrument and its price history as they were.
C16_NoDeletes ==
    [][ /\ stocks \subseteq stocks'
        /\ {t.symbol : t \in stocks} \subseteq {t.symbol : t \in stocks'}
        /\ BarKeys(stock_prices) \subseteq BarKeys(stock_prices')
        /\ last'.op = "remove_favorite" => (stocks' = stocks /\ stock_prices' = stock_prices)
        /\ pc' # pc => (stocks' = stocks /\ stock_prices' = stock_prices)
      ]_vars

\* a favorite with cached bars was removed after a sync run, and its
\* instrument and bars are still there
C16_HistoryKept ==
    /\ last.op = "remove_favorite"
    /\ last.flag
    /\ favorites = {}
    /\ \E t \in stocks : \E r \in stock_prices : r.stock_id = t.id
    /\ scheduler_logs # <<>>

\* the rows of a day that close the gate
ClosingRows(logs, day) ==
    {i \in 1..Len(logs) : Successful(logs[i]) /\ logs[i].day = day}

\* C27: on a weekday, when reading the run history fails, should_run_update
\* answers true and the loop starts a run; with a readable history a day
\* that has a completed or partial-success row admits no run; so only a
\* failed history read lets a second such row be recorded on a day.
C27_FailOpen ==
    [][ /\ (GateStep /\ gate' = "fail_open") => (~Weekend(today) /\ pc' = "start")
        /\ (GateStep /\ pc' = "start" /\ ClosingRows(scheduler_logs, today) # {}) =>
              gate' = "fail_open"
        /\ (LogStep /\ gate # "fail_open") =>
              Cardinality(ClosingRows(scheduler_logs', today)) <= 1
      ]_vars

\* a day has two completed or partial-success rows, the second from a run
\* that a failed history read admitted
C27_SecondRunRecorded ==
    \E i, j \in 1..Len(scheduler_logs) :
        /\ i < j
        /\ Successful(scheduler_logs[i])
        /\ Successful(scheduler_logs[j])
        /\ scheduler_logs[i].day = scheduler_logs[j].day
        /\ scheduler_logs[j].via = "fail_open"

\* the latest row of the run history is a row of today
LatestRowToday ==
    /\ scheduler_logs # <<>>
    /\ scheduler_logs[Len(scheduler_logs)].day = today

\* the latest row is a failed or error row of today, a weekday that has no
\* completed or partial-success row, and the loop is still followed
RetryDue ==
    /\ running
    /\ pc \in {"sleep", "errsleep", "loop", "gate"}
    /\ LatestRowToday
    /\ Len(scheduler_logs) < MaxLogs
    /\ scheduler_logs[Len(scheduler_logs)].status \in {"failed", "error"}
    /\ ~Weekend(today)
    /\ ClosingRows(scheduler_logs, today) = {}

\* C28: a failed or error row does not close the gate: at the next check on
\* that weekday should_run_update answers true, and the loop, if it keeps
\* running on that day, eventually starts another run; a check that answers
\* "already ran" has a completed or partial-success row of the day.
C28_FailedRunsRetried ==
    /\ [][ /\ (GateStep /\ RetryDue) => pc' = "start"
           /\ (GateStep /\ gate' = "already") => ClosingRows(scheduler_logs, today) # {}
         ]_vars
    /\ RetryDue ~> (pc = "start" \/ ~running \/ ~LatestRowToday)

\* a run has been started on a day whose only row is a failed or error one
C28_RetryStarted ==
    /\ pc = "start"
    /\ gate = "eligible"
    /\ \E i \in 1..Len(scheduler_logs) :
          scheduler_logs[i].day = today /\ scheduler_logs[i].status \in {"failed", "error"}

\* C22, as stated: when the read of the favorite symbols fails at the start
\* of a run, the run is recorded with status error or not as a successful
\* run, never as completed.
C22_SymbolReadFailureSurfaced ==
    [][ (LogStep /\ favorite_symbols = <<>> /\ FavoriteSymbolSet(stocks, favorites) # {}) =>
            ~Successful(scheduler_logs'[Len(scheduler_logs')])
      ]_vars

C24_SequentialPaced ==
    [][ /\ FetchStep =>
              /\ SubSeq(results', 1, Len(results)) = results
              /\ results'[Len(results')].symbol = favorite_symbols[Len(results')]
              /\ results'[Len(results')].paced = 1
        /\ (pc' = "start" /\ pc # "start") => (pc = "gate" /\ results = <<>>)
        /\ pc \in {"start", "fetch"} => pc' \in {"start", "fetch", "log", "errlog"}
        /\ (pc = "fetch" /\ pc' = "fetch" /\ results' # results) =>
              (favorite_symbols' = favorite_symbols /\ Len(results') = Len(results) + 1)
      ]_vars

\* two symbols of a run were handled, the first of them a failure
C24_TwoInTurn ==
    /\ pc = "fetch"
    /\ Len(results) = 2
    /\ Len(favorite_symbols) = 3
    /\ ~results[1].success
    /\ results[1].paced = 1 /\ results[2].paced = 1

\* the step of one GET /api/stock/{symbol} request
ServeStep == last'.op = "get_daily_stock_data"

\* C26: when the provider is asked, a response without data for the symbol
\* gives 404 and an exception of the provider call gives 500, never the
\* other way round, and in both cases nothing is written to the cache.
C26_ProviderOutcomes ==
    [][ (ServeStep /\ last'.provider # NoResponse) =>
          LET resp == last'.provider
              nodata == resp.kind = "no_symbol" \/ (resp.kind = "bars" /\ resp.bars = <<>>)
          IN  /\ nodata <=> last'.outcome = "404"
              /\ resp.kind = "exception" <=> last'.outcome = "500"
              /\ last'.outcome \in {"404", "500"} =>
                    /\ UNCHANGED <<stocks, favorites, stock_prices, nextId, lastWrite>>
                    /\ last'.data = <<>>
      ]_vars

\* a request on a filled cache was answered 404 for a response without the symbol
C26_NotFoundSeen ==
    /\ last.op = "get_daily_stock_data"
    /\ last.outcome = "404"
    /\ last.provider.kind = "no_symbol"
    /\ stock_prices # {}

\* the cached bars of a symbol code
CachedBars(prices, tbl, code) ==
    {r \in prices : \E st \in tbl : st.symbol = code /\ st.id = r.stock_id}

\* the number of provider calls among the events of a request
ProviderCalls(events) == Cardinality({i \in 1..Len(events) : events[i] = "provider"})

\* C30: a request with use_cache whose cache read succeeds and finds a bar
\* of the symbol is answered from the cache alone, with the most recent
\* bars, and the provider is not asked; any other request asks the provider
\* exactly once, for a range that ends yesterday, and when bars come back
\* the response is a success carrying them, each bar upserted before it but
\* for those whose write fails.
C30_CacheFirst ==
    [][ ServeStep =>
          LET code == Code(last'.symbol)
              cached == CachedBars(stock_prices, stocks, code)
              resp == last'.provider
          IN  IF last'.use_cache /\ last'.read = "ok" /\ cached # {}
              THEN /\ last'.source = "cache"
                   /\ last'.outcome = "ok"
                   /\ resp = NoResponse
                   /\ ProviderCalls(last'.events) = 0
                   /\ Len(last'.data) = (IF Cardinality(cached) < last'.days
                                          THEN Cardinality(cached) ELSE last'.days)
                   /\ \A i \in 1..Len(last'.data) :
                         /\ \E r \in cached : r.date = last'.data[i].date /\ r.close = last'.data[i].close
                         /\ Cardinality({r \in cached : r.date > last'.data[i].date}) = i - 1
                   /\ UNCHANGED <<stocks, favorites, stock_prices, nextId, lastWrite>>
              ELSE /\ last'.source = "provider"
                   /\ ProviderCalls(last'.events) = 1
                   /\ last'.end = today - 1
                   /\ last'.start = today - 1 - last'.days
                   /\ \A i \in 1..Len(resp.bars) : resp.bars[i].date \in last'.start..last'.end
                   /\ (resp.kind = "bars" /\ resp.bars # <<>>) =>
                         /\ last'.outcome = "ok"
                         /\ {last'.data[i].date : i \in 1..Len(last'.data)} =
                               {resp.bars[i].date : i \in 1..Len(resp.bars)}
                         /\ \A i \in 1..Len(resp.bars) :
                               resp.bars[i].date \notin last'.failed_dates =>
                                 \E r \in CachedBars(stock_prices', stocks', code) :
                                     /\ r.date = resp.bars[i].date
                                     /\ r.close = resp.bars[i].close
      ]_vars

\* of two cached bars, fetched earlier from the provider, the most recent
\* was served from the cache
C30_ServedFromCache ==
    /\ last.op = "get_daily_stock_data"
    /\ last.source = "cache"
    /\ last.symbol = <<"a">>
    /\ Len(last.data) = 1
    /\ last.data[1].date = today - 1
    /\ Cardinality(stock_prices) = 2

\* connections held after the first n events
Held(events, n) ==
    Cardinality({i \in 1..n : events[i] = "acquire"})
        - Cardinality({i \in 1..n : events[i] = "release"})

\* no connection is held when an external call is made, nor at the end
Free(events) ==
    /\ \A n \in 1..Len(events) :
          /\ events[n] \in {"provider", "request"} => Held(events, n) = 0
          /\ Held(events, n) \in {0, 1}
    /\ Held(events, Len(events)) = 0

\* C25: each cache read and write takes a connection and gives it back
\* before the call returns, so none is held when the API fetch path asks
\* the provider or when the sync path makes its range request.
C25_NoConnectionHeld ==
    /\ last.op = "get_daily_stock_data" => Free(last.events)
    /\ \A i \in 1..Len(results) : Free(results[i].events)

\* a request read the cache, asked the provider and saved the bars, beside
\* a sync run that read the cache and made its range request
C25_BothPathsSeen ==
    /\ last.op = "get_daily_stock_data"
    /\ last.use_cache
    /\ last.outcome = "ok"
    /\ ProviderCalls(last.events) = 1
    /\ Len(last.events) = 7
    /\ \E i \in 1..Len(results) : results[i].range_call /\ Len(results[i].events) = 3

\* the spellings a caller may give of a symbol code
Variants(code) == {v \in RawSymbols : Code(v) = code}

C21_ConcurrentAdd ==
    /\ \A c \in Callers : callers[c].pc = "done" => callers[c].outcome = "ok"
    /\ \A c \in Callers :
          (callers[c].pc = "done" /\ callers[c].outcome = "ok") =>
              /\ Cardinality({t \in stocks : t.symbol = Code(callers[c].symbol)}) = 1
              /\ Cardinality(Membership(favorites, stocks, Code(callers[c].symbol))) <= 1

====
